---- MODULE Spec2Model ----
(***************************************************************************)
(* Model of the notes application (component Home, src/unnamed/part_000).  *)
(*                                                                         *)
(* Strings are sequences of one-character strings; a timestamp is the      *)
(* number of milliseconds read from the clock; an ISO-8601 string is the   *)
(* pair <<seconds, milliseconds>> it spells; the text kept in localStorage *)
(* is a sequence of JSON tokens.  A value that may be null is a sequence   *)
(* of length 0 (null) or 1.                                                *)
(***************************************************************************)
EXTENDS Integers, Sequences, FiniteSets, TLC

VARIABLES
    notes,        \* useState<Note[]>([])
    searchQuery,  \* useState('')
    selectedTag,  \* useState<string | null>(null)
    isEditing,    \* useState(false)
    currentNote,  \* useState<Note | null>(null)
    title,        \* useState('')
    content,      \* useState('')
    tagInput,     \* useState('')
    tags,         \* useState<string[]>([])
    storage,      \* localStorage: the item 'notes' (<<>> when absent, else <<text>>)
    clock,        \* the wall clock read by new Date() and Date.now(), in ms
    pc,           \* where the component is: mounting, idle, crashed
    pending,      \* the state update queued by setNotes in the load effect
    lastOp,       \* history: the kind of handler or effect that ran last
    prior         \* history: the collection held when the page was reloaded

vars == <<notes, searchQuery, selectedTag, isEditing, currentNote, title,
          content, tagInput, tags, storage, clock, pc, pending, lastOp, prior>>

draft == <<currentNote, title, content, tagInput, tags>>
filters == <<searchQuery, selectedTag>>

----------------------------------------------------------------------------
(* Bounds *)

MaxNotes == 2
MaxClock == 2

----------------------------------------------------------------------------
(* Strings *)

Null == <<>>
Some(x) == <<x>>

EmptyStr == <<>>

\* String.prototype.toLowerCase, one character
LowerChar(c) ==
    CASE c = "A" -> "a"
      [] c = "B" -> "b"
      [] c = "C" -> "c"
      [] OTHER -> c

\* String.prototype.toLowerCase
ToLowerCase(s) == [i \in 1..Len(s) |-> LowerChar(s[i])]

IsSpace(c) == c = " "

RECURSIVE TrimStart(_)
TrimStart(s) ==
    IF s = <<>> THEN <<>>
    ELSE IF IsSpace(Head(s)) THEN TrimStart(Tail(s)) ELSE s

RECURSIVE TrimEnd(_)
TrimEnd(s) ==
    IF s = <<>> THEN <<>>
    ELSE IF IsSpace(s[Len(s)]) THEN TrimEnd(SubSeq(s, 1, Len(s) - 1)) ELSE s

\* String.prototype.trim
Trim(s) == TrimEnd(TrimStart(s))

\* String.prototype.includes: q occurs in s as a contiguous substring
StrIncludes(s, q) ==
    \E i \in 0..(Len(s) - Len(q)) : SubSeq(s, i + 1, i + Len(q)) = q

\* Array.prototype.includes
ArrIncludes(a, x) == \E i \in 1..Len(a) : a[i] = x

\* Array.prototype.filter with the predicate "is not x"
RECURSIVE Without(_, _)
Without(a, x) ==
    IF a = <<>> THEN <<>>
    ELSE IF Head(a) = x THEN Without(Tail(a), x)
         ELSE <<Head(a)>> \o Without(Tail(a), x)

\* UTF-16 code unit of a character
CharCode(c) ==
    CASE c = " " -> 32
      [] c = "A" -> 65
      [] c = "B" -> 66
      [] c = "C" -> 67
      [] c = "a" -> 97
      [] c = "b" -> 98
      [] c = "c" -> 99

\* the default comparison of Array.prototype.sort: by code units
RECURSIVE StrLess(_, _)
StrLess(s, t) ==
    IF t = <<>> THEN FALSE
    ELSE IF s = <<>> THEN TRUE
    ELSE IF CharCode(Head(s)) < CharCode(Head(t)) THEN TRUE
    ELSE IF CharCode(Head(s)) > CharCode(Head(t)) THEN FALSE
    ELSE StrLess(Tail(s), Tail(t))

----------------------------------------------------------------------------
(* Time *)

\* Date.prototype.toISOString: the seconds and milliseconds the string spells
ToISOString(ms) == <<ms \div 1000, ms % 1000>>

\* new Date(iso).getTime()
GetTime(iso) == iso[1] * 1000 + iso[2]

\* Date.now().toString()
NowString(ms) == ToString(ms)

----------------------------------------------------------------------------
(* Notes and their JSON text *)

Note(id, t, c, tg, created, updated) ==
    [id |-> id, title |-> t, content |-> c, tags |-> tg,
     createdAt |-> created, updatedAt |-> updated]

NoteKeys == <<"id", "title", "content", "tags", "createdAt", "updatedAt">>

\* variant: the tags are written as an empty array
StringifyNoteNoTags(n) ==
    <<"{", "id", [v |-> n.id], "title", [v |-> n.title],
      "content", [v |-> n.content], "tags", [v |-> <<>>],
      "createdAt", [v |-> n.createdAt], "updatedAt", [v |-> n.updatedAt], "}">>

\* JSON.stringify of one note: its members in property order
StringifyNote(n) ==
    <<"{", "id", [v |-> n.id], "title", [v |-> n.title],
      "content", [v |-> n.content], "tags", [v |-> n.tags],
      "createdAt", [v |-> n.createdAt], "updatedAt", [v |-> n.updatedAt], "}">>

RECURSIVE StringifyElems(_)
StringifyElems(ns) ==
    IF ns = <<>> THEN <<>>
    ELSE IF Len(ns) = 1 THEN StringifyNote(ns[1])
    ELSE StringifyNote(Head(ns)) \o <<",">> \o StringifyElems(Tail(ns))

\* JSON.stringify(notes)
Stringify(ns) == <<"[">> \o StringifyElems(ns) \o <<"]">>

ObjLen == Len(StringifyNote(Note("", <<>>, <<>>, <<>>, <<0, 0>>, <<0, 0>>)))

KeyPositions == {2 * i : i \in 1..Len(NoteKeys)}

IsNoteObject(chunk) ==
    /\ Len(chunk) = ObjLen
    /\ chunk[1] = "{"
    /\ chunk[ObjLen] = "}"
    /\ \A i \in 1..Len(NoteKeys) : \E p \in KeyPositions : chunk[p] = NoteKeys[i]

Member(chunk, k) == chunk[(CHOOSE p \in KeyPositions : chunk[p] = k) + 1].v

ParseNote(chunk) ==
    Note(Member(chunk, "id"), Member(chunk, "title"), Member(chunk, "content"),
         Member(chunk, "tags"), Member(chunk, "createdAt"), Member(chunk, "updatedAt"))

\* the elements between the brackets: [ok, val]
RECURSIVE ParseElems(_)
ParseElems(t) ==
    IF Len(t) < ObjLen \/ ~IsNoteObject(SubSeq(t, 1, ObjLen))
    THEN [ok |-> FALSE, val |-> <<>>]
    ELSE IF Len(t) = ObjLen
    THEN [ok |-> TRUE, val |-> <<ParseNote(t)>>]
    ELSE IF Len(t) = ObjLen + 1 \/ t[ObjLen + 1] # ","
    THEN [ok |-> FALSE, val |-> <<>>]
    ELSE LET rest == ParseElems(SubSeq(t, ObjLen + 2, Len(t)))
         IN  [ok |-> rest.ok,
              val |-> IF rest.ok THEN <<ParseNote(SubSeq(t, 1, ObjLen))>> \o rest.val
                      ELSE <<>>]

\* JSON texts that are not an array
OtherJSON == {<<"null">>, <<"{", "}">>}

\* JSON.parse(text): an array of notes, another JSON value, or a SyntaxError
JSONParse(t) ==
    IF t \in OtherJSON THEN [kind |-> "other", val |-> <<>>]
    ELSE IF Len(t) < 2 \/ t[1] # "[" \/ t[Len(t)] # "]"
    THEN [kind |-> "error", val |-> <<>>]
    ELSE IF Len(t) = 2 THEN [kind |-> "array", val |-> <<>>]
    ELSE LET e == ParseElems(SubSeq(t, 2, Len(t) - 1))
         IN  IF e.ok THEN [kind |-> "array", val |-> e.val]
             ELSE [kind |-> "error", val |-> <<>>]

\* a text that is not JSON
Garbage == <<"{", "bad">>

----------------------------------------------------------------------------
(* Derived views, recomputed by every render *)

\* notes.flatMap(note => note.tags)
RECURSIVE FlatTags(_)
FlatTags(ns) == IF ns = <<>> THEN <<>> ELSE Head(ns).tags \o FlatTags(Tail(ns))

\* Array.from(new Set(a)): first occurrences, in order
RECURSIVE Dedup(_)
Dedup(a) ==
    IF a = <<>> THEN <<>>
    ELSE LET front == Dedup(SubSeq(a, 1, Len(a) - 1))
         IN  IF ArrIncludes(front, a[Len(a)]) THEN front
             ELSE Append(front, a[Len(a)])

RECURSIVE InsertStr(_, _)
InsertStr(x, sorted) ==
    IF sorted = <<>> THEN <<x>>
    ELSE IF StrLess(x, Head(sorted)) THEN <<x>> \o sorted
         ELSE <<Head(sorted)>> \o InsertStr(x, Tail(sorted))

\* Array.prototype.sort() with the default comparison
RECURSIVE SortStrings(_)
SortStrings(a) ==
    IF a = <<>> THEN <<>> ELSE InsertStr(Head(a), SortStrings(Tail(a)))

\* variant: the tags in the order of their first occurrence
allTagsUnsorted(ns) == Dedup(FlatTags(ns))

allTags(ns) == SortStrings(Dedup(FlatTags(ns)))

\* variant: the comparison without toLowerCase()
matchesSearchExact(note, q) ==
    \/ q = EmptyStr
    \/ StrIncludes(note.title, q)
    \/ StrIncludes(note.content, q)
    \/ \E i \in 1..Len(note.tags) : StrIncludes(note.tags[i], q)

matchesSearch(note, q) ==
    \/ q = EmptyStr
    \/ StrIncludes(ToLowerCase(note.title), ToLowerCase(q))
    \/ StrIncludes(ToLowerCase(note.content), ToLowerCase(q))
    \/ \E i \in 1..Len(note.tags) :
          StrIncludes(ToLowerCase(note.tags[i]), ToLowerCase(q))

matchesTag(note, sel) == sel = Null \/ ArrIncludes(note.tags, sel[1])

\* notes.filter(note => matchesSearch && matchesTag)
RECURSIVE FilterNotes(_, _, _)
FilterNotes(ns, q, sel) ==
    IF ns = <<>> THEN <<>>
    ELSE IF matchesSearch(Head(ns), q) /\ matchesTag(Head(ns), sel)
         THEN <<Head(ns)>> \o FilterNotes(Tail(ns), q, sel)
         ELSE FilterNotes(Tail(ns), q, sel)

\* variant: the comparison by createdAt
CompareNotesByCreation(a, b) == GetTime(b.createdAt) - GetTime(a.createdAt)

\* the comparison function (a, b) => getTime(b.updatedAt) - getTime(a.updatedAt)
CompareNotes(a, b) == GetTime(b.updatedAt) - GetTime(a.updatedAt)

\* x goes before the first element it does not follow
RECURSIVE InsertNote(_, _)
InsertNote(x, sorted) ==
    IF sorted = <<>> THEN <<x>>
    ELSE IF CompareNotes(x, Head(sorted)) <= 0 THEN <<x>> \o sorted
         ELSE <<Head(sorted)>> \o InsertNote(x, Tail(sorted))

\* Array.prototype.sort(compare): stable
RECURSIVE SortNotes(_)
SortNotes(a) ==
    IF a = <<>> THEN <<>> ELSE InsertNote(Head(a), SortNotes(Tail(a)))

filteredNotes(ns, q, sel) == SortNotes(FilterNotes(ns, q, sel))

----------------------------------------------------------------------------
(* Values the user types *)

\* the title is cleared, typed as one space, or typed as a letter; the
\* content field is only cleared here (the texts with a content are those
\* of ViewTexts)
TitleInputs == {<<>>, <<" ">>, <<"A">>}
ContentInputs == {<<>>}
TagInputs == {<<" ", "A", " ">>}
QueryInputs == {<<>>}

\* what localStorage may hold when the page is first opened
InitialStorage == {Null, Some(EmptyStr), Some(Garbage)} \cup {Some(t) : t \in OtherJSON}

----------------------------------------------------------------------------
(* Mount: first render with the initial state, then the effects in order *)

Init ==
    /\ notes = <<>>
    /\ searchQuery = EmptyStr
    /\ selectedTag = Null
    /\ isEditing = FALSE
    /\ currentNote = Null
    /\ title = EmptyStr
    /\ content = EmptyStr
    /\ tagInput = EmptyStr
    /\ tags = <<>>
    /\ storage \in InitialStorage
    /\ clock = 1
    /\ pc = "mount"
    /\ pending = Null
    /\ lastOp = "render"
    /\ prior = Null

\* if (saved): null and '' are falsy
Truthy(saved) == saved # Null /\ saved[1] # EmptyStr

\* useEffect(() => { ... }, []): read the item, queue setNotes(JSON.parse(saved));
\* a SyntaxError thrown here unmounts the component, its later effects do not run
LoadEffect ==
    /\ pc = "mount"
    /\ IF Truthy(storage)
       THEN LET r == JSONParse(storage[1])
            IN  IF r.kind = "error"
                THEN pc' = "crashed" /\ pending' = Null
                ELSE pc' = "loaded" /\ pending' = Some(r)
       ELSE pc' = "loaded" /\ pending' = Null
    /\ lastOp' = "load"
    /\ UNCHANGED <<notes, filters, isEditing, draft, storage, clock, prior>>

\* useEffect(() => localStorage.setItem('notes', JSON.stringify(notes)), [notes])
Persisted(ns) == Some(Stringify(ns))

PersistEffect ==
    /\ pc \in {"loaded", "rendered"}
    /\ storage' = Persisted(notes)
    /\ pc' = IF pc = "loaded" /\ pending # Null THEN "flushed" ELSE "idle"
    /\ lastOp' = "persist"
    /\ UNCHANGED <<notes, filters, isEditing, draft, clock, pending, prior>>

\* the render that applies the queued setNotes; a value that is not an array
\* makes notes.flatMap throw and the component unmounts
Rerender ==
    /\ pc = "flushed"
    /\ IF pending[1].kind = "array"
       THEN notes' = pending[1].val /\ pc' = "rendered"
       ELSE notes' = notes /\ pc' = "crashed"
    /\ pending' = Null
    /\ lastOp' = "rerender"
    /\ UNCHANGED <<filters, isEditing, draft, storage, clock, prior>>

\* the page is reloaded, at any moment, a start included: the component
\* state is lost, localStorage is kept
Reload ==
    /\ notes' = <<>>
    /\ searchQuery' = EmptyStr
    /\ selectedTag' = Null
    /\ isEditing' = FALSE
    /\ currentNote' = Null
    /\ title' = EmptyStr
    /\ content' = EmptyStr
    /\ tagInput' = EmptyStr
    /\ tags' = <<>>
    /\ pc' = "mount"
    /\ pending' = Null
    /\ lastOp' = "render"
    /\ prior' = IF pc = "idle" THEN Some(notes) ELSE Null
    /\ UNCHANGED <<storage, clock>>

\* time passes
Tick ==
    /\ pc = "idle"
    /\ clock < MaxClock
    /\ clock' = clock + 1
    /\ UNCHANGED <<notes, filters, isEditing, draft, storage, pc, pending, lastOp, prior>>

----------------------------------------------------------------------------
(* Event handlers; each runs to completion, with the render and the persist
   effect that its state updates cause *)

Browsing == pc = "idle" /\ ~isEditing
Editing == pc = "idle" /\ isEditing

\* variant: the collection changes and the persist effect does not run
SetNotesUnsaved(ns) ==
    /\ notes' = ns
    /\ storage' = storage

\* setNotes(ns), the render, and the persist effect on the new collection
SetNotes(ns) ==
    /\ notes' = ns
    /\ storage' = Persisted(ns)

\* variant: the bound note of an earlier session is kept
createNoteKeepingBound ==
    /\ Browsing
    /\ title' = EmptyStr
    /\ content' = EmptyStr
    /\ tags' = <<>>
    /\ tagInput' = EmptyStr
    /\ isEditing' = TRUE
    /\ lastOp' = "start"
    /\ prior' = Null
    /\ UNCHANGED <<notes, filters, storage, clock, pc, pending, currentNote>>

\* the + button of the list view
createNote ==
    /\ Browsing
    /\ currentNote' = Null
    /\ title' = EmptyStr
    /\ content' = EmptyStr
    /\ tags' = <<>>
    /\ tagInput' = EmptyStr
    /\ isEditing' = TRUE
    /\ lastOp' = "start"
    /\ prior' = Null
    /\ UNCHANGED <<notes, filters, storage, clock, pc, pending>>

\* a click on the card of a listed note
editNote(note) ==
    /\ Browsing
    /\ ArrIncludes(filteredNotes(notes, searchQuery, selectedTag), note)
    /\ currentNote' = Some(note)
    /\ title' = note.title
    /\ content' = note.content
    /\ tags' = note.tags
    /\ tagInput' = EmptyStr
    /\ isEditing' = TRUE
    /\ lastOp' = "start"
    /\ prior' = Null
    /\ UNCHANGED <<notes, filters, storage, clock, pc, pending>>

\* variant: the test without trim()
IsBlankUntrimmed(s) == s = EmptyStr

\* !s.trim()
IsBlank(s) == Trim(s) = EmptyStr

\* notes.map(note => note.id === currentNote.id ? {...note, title, content, tags, updatedAt: now} : note)
UpdateNotes(ns, id, t, c, tg, now) ==
    [i \in 1..Len(ns) |->
        IF ns[i].id = id
        THEN [ns[i] EXCEPT !.title = t, !.content = c, !.tags = tg, !.updatedAt = now]
        ELSE ns[i]]

\* variant: the new note is built without the tags of the draft
NewNoteUntagged(t, c, tg, ms, idMs) ==
    Note(NowString(idMs), t, c, <<>>, ToISOString(ms), ToISOString(ms))

\* the clock is read twice: ms by new Date() for createdAt and updatedAt,
\* then idMs by Date.now() for the id
NewNote(t, c, tg, ms, idMs) ==
    Note(NowString(idMs), t, c, tg, ToISOString(ms), ToISOString(ms))

\* variant: the rejected save closes the editor as an accepted one does
RejectSaveClosing ==
    /\ isEditing' = FALSE
    /\ currentNote' = Null
    /\ UNCHANGED <<notes, storage>>

\* the early return: no state update is made
RejectSave == UNCHANGED <<notes, storage, isEditing, currentNote>>

saveNote ==
    /\ Editing
    /\ prior' = Null
    /\ IF IsBlank(title) /\ IsBlank(content)
       THEN /\ lastOp' = "saveRejected"
            /\ RejectSave
            /\ clock' = clock
       ELSE /\ IF currentNote # Null
               THEN /\ SetNotes(UpdateNotes(notes, currentNote[1].id, title, content,
                                            tags, ToISOString(clock)))
                    /\ clock' = clock
               ELSE /\ Len(notes) < MaxNotes
                    /\ \E idMs \in clock..MaxClock :
                          /\ SetNotes(<<NewNote(title, content, tags, clock, idMs)>>
                                         \o notes)
                          /\ clock' = idMs
            /\ isEditing' = FALSE
            /\ currentNote' = Null
            /\ lastOp' = "saveNote"
    /\ UNCHANGED <<filters, title, content, tagInput, tags, pc, pending>>

\* variant: only the first note of the id is removed
RECURSIVE RemoveFirstNote(_, _)
RemoveFirstNote(ns, id) ==
    IF ns = <<>> THEN <<>>
    ELSE IF Head(ns).id = id THEN Tail(ns)
         ELSE <<Head(ns)>> \o RemoveFirstNote(Tail(ns), id)

\* notes.filter(note => note.id !== id)
RemoveNote(ns, id) == SelectSeq(ns, LAMBDA n : n.id # id)

\* variant: the note is removed whatever confirm() answers
deleteNoteUnasked(id, confirmed) ==
    /\ Browsing
    /\ \E i \in 1..Len(notes) :
          /\ notes[i].id = id
          /\ ArrIncludes(filteredNotes(notes, searchQuery, selectedTag), notes[i])
    /\ SetNotes(RemoveNote(notes, id))
    /\ lastOp' = IF confirmed THEN "deleteNote" ELSE "deleteDeclined"
    /\ prior' = Null
    /\ UNCHANGED <<filters, isEditing, draft, clock, pc, pending>>

\* the delete button of a listed note; confirmed is the answer to confirm()
deleteNote(id, confirmed) ==
    /\ Browsing
    /\ \E i \in 1..Len(notes) :
          /\ notes[i].id = id
          /\ ArrIncludes(filteredNotes(notes, searchQuery, selectedTag), notes[i])
    /\ IF confirmed
       THEN SetNotes(RemoveNote(notes, id)) /\ lastOp' = "deleteNote"
       ELSE UNCHANGED <<notes, storage>> /\ lastOp' = "deleteDeclined"
    /\ prior' = Null
    /\ UNCHANGED <<filters, isEditing, draft, clock, pc, pending>>

\* variant: the tag without trim()
NormalizeTagUntrimmed(s) == ToLowerCase(s)

\* tagInput.trim().toLowerCase()
NormalizeTag(s) == ToLowerCase(Trim(s))

addTag ==
    /\ Editing
    /\ LET tag == NormalizeTag(tagInput)
       IN  IF tag # EmptyStr /\ ~ArrIncludes(tags, tag)
           THEN tags' = Append(tags, tag) /\ tagInput' = EmptyStr
           ELSE UNCHANGED <<tags, tagInput>>
    /\ lastOp' = "input"
    /\ prior' = Null
    /\ UNCHANGED <<notes, filters, isEditing, currentNote, title, content,
                   storage, clock, pc, pending>>

\* the remove button of a tag of the draft
removeTag(tag) ==
    /\ Editing
    /\ ArrIncludes(tags, tag)
    /\ tags' = Without(tags, tag)
    /\ lastOp' = "input"
    /\ prior' = Null
    /\ UNCHANGED <<notes, filters, isEditing, currentNote, title, content,
                   tagInput, storage, clock, pc, pending>>

\* variant: Back writes the draft into the bound note before it closes
BackMerging ==
    /\ Editing
    /\ isEditing' = FALSE
    /\ IF currentNote # Null
       THEN SetNotes(UpdateNotes(notes, currentNote[1].id, title, content,
                                 tags, ToISOString(clock)))
       ELSE UNCHANGED <<notes, storage>>
    /\ lastOp' = "browse"
    /\ prior' = Null
    /\ UNCHANGED <<filters, draft, clock, pc, pending>>

\* the Back button: setIsEditing(false)
Back ==
    /\ Editing
    /\ isEditing' = FALSE
    /\ lastOp' = "browse"
    /\ prior' = Null
    /\ UNCHANGED <<notes, filters, draft, storage, clock, pc, pending>>

SetTitle(v) ==
    /\ Editing
    /\ title' = v
    /\ lastOp' = "input"
    /\ prior' = Null
    /\ UNCHANGED <<notes, filters, isEditing, currentNote, content, tagInput,
                   tags, storage, clock, pc, pending>>

SetContent(v) ==
    /\ Editing
    /\ content' = v
    /\ lastOp' = "input"
    /\ prior' = Null
    /\ UNCHANGED <<notes, filters, isEditing, currentNote, title, tagInput,
                   tags, storage, clock, pc, pending>>

SetTagInput(v) ==
    /\ Editing
    /\ tagInput' = v
    /\ lastOp' = "input"
    /\ prior' = Null
    /\ UNCHANGED <<notes, filters, isEditing, currentNote, title, content,
                   tags, storage, clock, pc, pending>>

SetSearchQuery(v) ==
    /\ Browsing
    /\ searchQuery' = v
    /\ lastOp' = "browse"
    /\ prior' = Null
    /\ UNCHANGED <<notes, selectedTag, isEditing, draft, storage, clock, pc, pending>>

\* a tag button, shown for every tag of allTags
ToggleTag(tag) ==
    /\ Browsing
    /\ ArrIncludes(allTags(notes), tag)
    /\ selectedTag' = IF selectedTag = Some(tag) THEN Null ELSE Some(tag)
    /\ lastOp' = "browse"
    /\ prior' = Null
    /\ UNCHANGED <<notes, searchQuery, isEditing, draft, storage, clock, pc, pending>>

\* the All button, shown when allTags is not empty
SelectAll ==
    /\ Browsing
    /\ Len(allTags(notes)) > 0
    /\ selectedTag' = Null
    /\ lastOp' = "browse"
    /\ prior' = Null
    /\ UNCHANGED <<notes, searchQuery, isEditing, draft, storage, clock, pc, pending>>

----------------------------------------------------------------------------

NoteUniverse == {notes[i] : i \in 1..Len(notes)}
TagUniverse == {NormalizeTag(v) : v \in TagInputs}

Next ==
    \/ LoadEffect
    \/ PersistEffect
    \/ Rerender
    \/ Reload
    \/ Tick
    \/ createNote
    \/ \E n \in NoteUniverse : editNote(n)
    \/ saveNote
    \/ \E n \in NoteUniverse, c \in BOOLEAN : deleteNote(n.id, c)
    \/ addTag
    \/ \E t \in TagUniverse : removeTag(t)
    \/ Back
    \/ \E v \in TitleInputs : SetTitle(v)
    \/ \E v \in ContentInputs : SetContent(v)
    \/ \E v \in TagInputs : SetTagInput(v)
    \/ \E v \in QueryInputs : SetSearchQuery(v)
    \/ \E t \in TagUniverse : ToggleTag(t)
    \/ SelectAll

Spec == Init /\ [][Next]_vars

----------------------------------------------------------------------------
(* The derived views alone: the component is idle with a collection an
   earlier run can have left, and only the filter controls are used *)

ViewTexts == {[title |-> <<"A", "b">>, content |-> <<>>],
              [title |-> <<>>, content |-> <<"b", " ", "C">>]}
ViewTagLists == {<<>>, <<<<"a">>>>, <<<<"c", "a">>, <<"a">>>>}
ViewQueries == {<<>>, <<"a">>, <<"B">>, <<"c">>, <<"A", "B">>}
ViewTags == {<<"a">>, <<"c", "a">>}

\* the latest time of a save in a stored collection
ViewClock == MaxClock

\* the clock readings of a note's life: ms at new Date() and idMs at
\* Date.now() of its creation, up at the new Date() of its last update
\* (up = ms when there was none); an update comes after the creation
ViewTimes ==
    {t \in (1..ViewClock) \X (1..ViewClock) \X (1..ViewClock) :
        /\ t[1] <= t[2]
        /\ t[3] = t[1] \/ t[3] >= t[2]}

\* the notes saveNote can have written by that time
ViewNotes ==
    {Note(NowString(t[2]), x.title, x.content, tg, ToISOString(t[1]), ToISOString(t[3])) :
        x \in ViewTexts, tg \in ViewTagLists, t \in ViewTimes}

\* the clock reading an id spells
IdTime(id) == CHOOSE ms \in 1..ViewClock : NowString(ms) = id

\* what one update writes to every note of an id
SameUpdate(m, n) ==
    /\ m.title = n.title
    /\ m.content = n.content
    /\ m.tags = n.tags
    /\ m.updatedAt = n.updatedAt

\* new notes are prepended, so a note's creation follows the whole creation
\* of the notes behind it; no update runs between the two clock readings of
\* a creation; notes of one id are updated together, and one of them that
\* differs from a note behind it was created after that note's last update
\* and has had none itself
WrittenByApp(ns) ==
    /\ \A i, j \in 1..Len(ns) :
          i < j => GetTime(ns[i].createdAt) >= IdTime(ns[j].id)
    /\ \A i, j \in 1..Len(ns) :
          i < j => ~ /\ GetTime(ns[i].createdAt) < GetTime(ns[j].updatedAt)
                     /\ GetTime(ns[j].updatedAt) < IdTime(ns[i].id)
    /\ \A i, j \in 1..Len(ns) :
          (i < j /\ ns[i].id = ns[j].id) =>
             \/ SameUpdate(ns[i], ns[j])
             \/ /\ ns[i].updatedAt = ns[i].createdAt
                /\ GetTime(ns[j].updatedAt) <= GetTime(ns[i].createdAt)

\* the collections of k notes: a new note before a collection of k - 1
RECURSIVE CollectionsOfLen(_)
CollectionsOfLen(k) ==
    IF k = 0 THEN {<<>>}
    ELSE {ns \in {<<n>> \o rest : n \in ViewNotes, rest \in CollectionsOfLen(k - 1)} :
             WrittenByApp(ns)}

ViewCollections == UNION {CollectionsOfLen(k) : k \in 0..MaxNotes}

InitView ==
    /\ notes \in ViewCollections
    /\ searchQuery = EmptyStr
    /\ selectedTag = Null
    /\ isEditing = FALSE
    /\ currentNote = Null
    /\ title = EmptyStr
    /\ content = EmptyStr
    /\ tagInput = EmptyStr
    /\ tags = <<>>
    /\ storage = Persisted(notes)
    /\ clock = ViewClock
    /\ pc = "idle"
    /\ pending = Null
    /\ lastOp = "persist"
    /\ prior = Null

NextView ==
    \/ \E v \in ViewQueries : SetSearchQuery(v)
    \/ \E t \in ViewTags : ToggleTag(t)
    \/ SelectAll

SpecView == InitView /\ [][NextView]_vars

----------------------------------------------------------------------------
(* Vocabulary of the properties, stated without the operators of the model *)

AllSpaces(s) == \A i \in 1..Len(s) : s[i] = " "

BlankNote(n) == AllSpaces(n.title) /\ AllSpaces(n.content)

\* the collection the stored text spells, when it spells one
StoredNotes ==
    IF Truthy(storage) /\ JSONParse(storage[1]).kind = "array"
    THEN JSONParse(storage[1]).val
    ELSE <<>>

SaveOps == {"saveNote", "saveRejected"}

\* a step of the save handler
SaveStep ==
    /\ Editing
    /\ \/ lastOp' = "saveRejected" /\ clock' = clock
       \/ lastOp' = "saveNote" /\ ~isEditing'

----------------------------------------------------------------------------
(* C1: whenever the application waits for the next user event, the text
   stored under the key is the serialization of the in-memory collection *)
C1_PersistedEqualsMemory ==
    pc = "idle" => storage = <<Stringify(notes)>>

C1_Witness ==
    /\ pc = "idle"
    /\ lastOp \in {"saveNote", "deleteNote"}
    /\ Len(notes) = 1
    /\ notes[1].tags # <<>>

NoBlankNote ==
    /\ \A i \in 1..Len(notes) : ~BlankNote(notes[i])
    /\ \A i \in 1..Len(StoredNotes) : ~BlankNote(StoredNotes[i])

(* C2: no note of the collection or of the stored text has a blank title and
   a blank content, and a save of a draft whose title and content are both
   blank changes neither the collection nor the stored text *)
C2_BlankSaveRejected ==
    /\ []NoBlankNote
    /\ [][(SaveStep /\ AllSpaces(title) /\ AllSpaces(content))
            => (notes' = notes /\ storage' = storage)]_vars

C2_Witness ==
    /\ lastOp = "saveRejected"
    /\ currentNote # Null
    /\ title = <<" ">>
    /\ notes # <<>>

(* C3 as stated: every save, accepted or rejected, ends in Browsing *)
C3_EverySaveEndsBrowsing ==
    (pc = "idle" /\ lastOp \in SaveOps) => ~isEditing

(* C3 amended: a save of a draft whose title and content are both blank
   changes neither the store nor the session, which stays in Editing with
   its draft; any other save ends in Browsing *)
C3_RejectedSaveStaysEditing ==
    [][SaveStep =>
         IF AllSpaces(title) /\ AllSpaces(content)
         THEN /\ isEditing'
              /\ notes' = notes
              /\ storage' = storage
              /\ draft' = draft
         ELSE ~isEditing']_vars

C3_Witness ==
    /\ lastOp = "saveRejected"
    /\ isEditing
    /\ title = <<" ">>

(* C4: a stored text that does not parse as a collection of notes never
   leaves the application crashed *)
C4_LoadFailsSoft == pc # "crashed"

(* C5: after a reload the in-memory collection equals the one held before it *)
C5_RoundTrip ==
    (pc = "idle" /\ prior # Null) => notes = prior[1]

C5_Witness ==
    /\ pc = "idle"
    /\ prior # Null
    /\ Len(notes) = 2
    /\ notes[1].tags # <<>>
    /\ notes[1].updatedAt # notes[1].createdAt

----------------------------------------------------------------------------
(* The visible list, as the filter and sort rules describe it *)

visible == filteredNotes(notes, searchQuery, selectedTag)

Occurrences(seq, x) == Cardinality({i \in 1..Len(seq) : seq[i] = x})

SameLetter(a, b) ==
    \/ a = b
    \/ {a, b} \in {{"a", "A"}, {"b", "B"}, {"c", "C"}}

\* q occurs in s, letter case aside
ContainsIgnoringCase(s, q) ==
    \E i \in 1..(Len(s) - Len(q) + 1) :
        \A k \in 1..Len(q) : SameLetter(s[i + k - 1], q[k])

PassesSearch(n) ==
    \/ Len(searchQuery) = 0
    \/ ContainsIgnoringCase(n.title, searchQuery)
    \/ ContainsIgnoringCase(n.content, searchQuery)
    \/ \E i \in 1..Len(n.tags) : ContainsIgnoringCase(n.tags[i], searchQuery)

PassesTag(n) ==
    \/ Len(selectedTag) = 0
    \/ \E i \in 1..Len(n.tags) : n.tags[i] = selectedTag[1]

(* C6: a note is in the visible list, as often as in the collection, iff it
   passes the tag predicate and the search predicate; no other note is *)
C6_VisibleIffBothPredicates ==
    /\ \A i \in 1..Len(notes) :
          Occurrences(visible, notes[i]) =
             IF PassesSearch(notes[i]) /\ PassesTag(notes[i])
             THEN Occurrences(notes, notes[i]) ELSE 0
    /\ \A i \in 1..Len(visible) : Occurrences(notes, visible[i]) > 0

C6_Witness ==
    /\ Len(notes) = 2
    /\ Len(visible) = 1
    /\ searchQuery = <<"c">>
    /\ selectedTag = <<<<"a">>>>
    /\ ~ContainsIgnoringCase(visible[1].content, searchQuery)
    /\ PassesTag(notes[1]) /\ PassesTag(notes[2])

(* C7: the visible list is ordered by updatedAt, latest first, and notes of
   equal updatedAt are in the order the stored collection has them *)
C7_SortedByRecencyStable ==
    /\ \A i \in 1..(Len(visible) - 1) :
          GetTime(visible[i].updatedAt) >= GetTime(visible[i + 1].updatedAt)
    /\ \A t \in 0..ViewClock :
          SelectSeq(visible, LAMBDA n : GetTime(n.updatedAt) = t) =
          SelectSeq(notes, LAMBDA n : /\ GetTime(n.updatedAt) = t
                                      /\ Occurrences(visible, n) > 0)

C7_Witness ==
    /\ Len(notes) = 2
    /\ visible = <<notes[2], notes[1]>>
    /\ GetTime(notes[2].updatedAt) > GetTime(notes[1].updatedAt)
    /\ searchQuery # EmptyStr

----------------------------------------------------------------------------
UpperLetters == {"A", "B", "C"}

\* a tag as addTag leaves it: not empty, no space at either end, no capital
CleanTag(t) ==
    /\ Len(t) > 0
    /\ t[1] # " "
    /\ t[Len(t)] # " "
    /\ \A k \in 1..Len(t) : t[k] \notin UpperLetters

CleanTagList(tg) ==
    /\ \A i \in 1..Len(tg) : CleanTag(tg[i])
    /\ \A i, j \in 1..Len(tg) : i # j => tg[i] # tg[j]

\* the input spells the tag t, spaces around it and letter case aside
Spells(input, t) ==
    \E i, j \in 1..Len(input) :
        /\ j - i + 1 = Len(t)
        /\ \A k \in 1..Len(t) : SameLetter(input[i + k - 1], t[k])
        /\ \A k \in 1..Len(input) : (k < i \/ k > j) => input[k] = " "

TagsClean ==
    /\ CleanTagList(tags)
    /\ \A i \in 1..Len(notes) : CleanTagList(notes[i].tags)

(* C8: the tags of the draft and of every note are clean and pairwise
   distinct, and addTag on an input that is blank or spells a tag of the
   draft changes neither the tags nor the tag-input buffer *)
C8_TagDedup ==
    /\ []TagsClean
    /\ [][(addTag /\ (AllSpaces(tagInput) \/ \E i \in 1..Len(tags) : Spells(tagInput, tags[i])))
            => (tags' = tags /\ tagInput' = tagInput)]_vars

C8_Witness ==
    /\ isEditing
    /\ currentNote # Null
    /\ tags = <<<<"a">>>>
    /\ tagInput = <<" ", "A", " ">>
    /\ lastOp = "input"
    /\ \E i \in 1..Len(notes) : notes[i].tags # <<>>

(* C9: removing an id twice gives what removing it once gives, and removing
   an id no note has gives the collection back, contents and order *)
IdUniverse == {NowString(t) : t \in 0..(MaxClock + 1)}

C9_DeleteIdempotent ==
    \A id \in IdUniverse :
        /\ RemoveNote(RemoveNote(notes, id), id) = RemoveNote(notes, id)
        /\ (\A i \in 1..Len(notes) : notes[i].id # id) => RemoveNote(notes, id) = notes
        /\ \A i \in 1..Len(RemoveNote(notes, id)) : RemoveNote(notes, id)[i].id # id

C9_Witness ==
    /\ lastOp = "deleteNote"
    /\ Len(notes) = 1
    /\ clock = MaxClock

(* C10: the notes of the collection have pairwise distinct ids *)
C10_UniqueIds ==
    \A i, j \in 1..Len(notes) : i # j => notes[i].id # notes[j].id

----------------------------------------------------------------------------
\* an accepted save of an edit session
UpdateStep == SaveStep /\ lastOp' = "saveNote" /\ currentNote # Null

\* the note at position k as the save of the draft leaves it
Updated(k) ==
    [notes[k] EXCEPT !.title = title, !.content = content, !.tags = tags,
                     !.updatedAt = ToISOString(clock)]

(* C11: an accepted save of an edit session keeps the length and the order
   of the collection and every id and createdAt; one note, of the bound id,
   receives the draft and updatedAt = now, and every other note is unchanged *)
C11_UpdateTouchesOneNote ==
    [][UpdateStep =>
         /\ Len(notes') = Len(notes)
         /\ \A i \in 1..Len(notes) :
               /\ notes'[i].id = notes[i].id
               /\ notes'[i].createdAt = notes[i].createdAt
         /\ \E k \in 1..Len(notes) :
               /\ notes[k].id = currentNote[1].id
               /\ notes'[k] = Updated(k)
               /\ \A i \in 1..Len(notes) : i # k => notes'[i] = notes[i]]_vars

----------------------------------------------------------------------------
\* a step taken while the component stays mounted
SessionStep == pc = "idle" /\ pc' = "idle"

(* C12: a declined delete changes neither the collection, the stored text,
   the filters nor the session; in Browsing the collection changes only by a
   confirmed delete, and in Editing only by an accepted save *)
C12_DeleteNeedsConfirmation ==
    /\ [][(Browsing /\ lastOp' = "deleteDeclined") =>
            /\ notes' = notes
            /\ storage' = storage
            /\ filters' = filters
            /\ isEditing' = isEditing
            /\ draft' = draft]_vars
    /\ [][(SessionStep /\ ~isEditing /\ notes' # notes) => lastOp' = "deleteNote"]_vars
    /\ [][(SessionStep /\ isEditing /\ notes' # notes) => lastOp' = "saveNote"]_vars

C12_Witness ==
    /\ lastOp = "deleteDeclined"
    /\ Len(notes) = 2
    /\ selectedTag # Null
    /\ Len(visible) = 1

----------------------------------------------------------------------------
(* C13: Back is enabled in every Editing state and ends in Browsing; no step
   of a session but an accepted save changes the collection or the stored
   text, so after Back both are what they were when the session was opened *)
C13_CancelDiscardsDraft ==
    /\ [](Editing => ENABLED Back)
    /\ [][(SessionStep /\ isEditing /\ lastOp' # "saveNote") =>
            (notes' = notes /\ storage' = storage)]_vars
    /\ [][(SessionStep /\ isEditing /\ ~isEditing' /\ lastOp' = "browse") =>
            (notes' = notes /\ storage' = storage /\ draft' = draft)]_vars

\* Back has closed an edit session whose draft differed from the bound note,
\* and the note is still in the collection as it was
C13_Witness ==
    /\ pc = "idle"
    /\ ~isEditing
    /\ lastOp = "browse"
    /\ currentNote # Null
    /\ tags # currentNote[1].tags
    /\ title # currentNote[1].title
    /\ notes = <<currentNote[1]>>
    /\ storage = <<Stringify(notes)>>

----------------------------------------------------------------------------
\* an accepted save of a create session
CreateStep == SaveStep /\ lastOp' = "saveNote" /\ currentNote = Null

(* C14: an accepted save of a create session puts one new note at the head
   of the collection, with createdAt = updatedAt = now and the title, content
   and tags of the draft, leaves the notes it had behind it as they were, and
   ends in Browsing; a create session with a title or a content that is not
   blank is accepted *)
C14_CreatePrepends ==
    /\ [][CreateStep =>
            /\ Len(notes') = Len(notes) + 1
            /\ notes'[1].title = title
            /\ notes'[1].content = content
            /\ notes'[1].tags = tags
            /\ GetTime(notes'[1].createdAt) = clock
            /\ GetTime(notes'[1].updatedAt) = clock
            /\ \A i \in 1..Len(notes) : notes'[i + 1] = notes[i]
            /\ ~isEditing']_vars
    /\ [][(SaveStep /\ currentNote = Null /\ ~(AllSpaces(title) /\ AllSpaces(content)))
            => lastOp' = "saveNote"]_vars

C14_Witness ==
    /\ pc = "idle"
    /\ ~isEditing
    /\ lastOp = "saveNote"
    /\ Len(notes) = 2
    /\ notes[1].tags = tags
    /\ tags # <<>>
    /\ notes[2].tags = <<>>
    /\ GetTime(notes[1].createdAt) = clock
    /\ GetTime(notes[2].createdAt) < clock

----------------------------------------------------------------------------
EmptyDraft == <<Null, EmptyStr, EmptyStr, EmptyStr, <<>>>>

\* the draft editNote makes of a note: bound to it, with its fields
DraftOf(n) == <<Some(n), n.title, n.content, EmptyStr, n.tags>>

(* C15: every entry into Editing starts from the empty draft with no bound
   note, or from the draft of a note of the visible list with that note
   bound; a save of a create session changes no note the collection had *)
C15_FreshDraft ==
    /\ [][(Browsing /\ isEditing') =>
            \/ draft' = EmptyDraft
            \/ \E i \in 1..Len(visible) : draft' = DraftOf(visible[i])]_vars
    /\ [][(SaveStep /\ currentNote = Null) =>
            \/ notes' = notes
            \/ /\ Len(notes') = Len(notes) + 1
               /\ \A i \in 1..Len(notes) : notes'[i + 1] = notes[i]]_vars

\* a create session opened over a collection whose note has a title and
\* tags: nothing of that note is in the draft
C15_Witness ==
    /\ isEditing
    /\ lastOp = "start"
    /\ draft = EmptyDraft
    /\ Len(notes) = 1
    /\ notes[1].tags # <<>>
    /\ notes[1].title # EmptyStr

----------------------------------------------------------------------------
\* s comes before t in the order of the code units: s is a proper prefix
\* of t, or the two differ first at a place where s has the smaller unit
Precedes(s, t) ==
    \E k \in 1..Len(t) :
        /\ \A i \in 1..(k - 1) : i <= Len(s) /\ s[i] = t[i]
        /\ \/ Len(s) = k - 1
           \/ Len(s) >= k /\ CharCode(s[k]) < CharCode(t[k])

\* the tags some note of the collection carries
CarriedTags == UNION {{notes[i].tags[k] : k \in 1..Len(notes[i].tags)} : i \in 1..Len(notes)}

(* C16: in every state, whatever the search query and the selected tag,
   the all-tags view is strictly increasing in the order of the code units
   (so sorted and free of duplicates) and lists exactly the tags that some
   note of the full collection carries *)
C16_AllTagsIsSortedUnion ==
    LET at == allTags(notes)
    IN  /\ \A i, j \in 1..Len(at) : i < j => Precedes(at[i], at[j])
        /\ {at[i] : i \in 1..Len(at)} = CarriedTags

\* two tags carried three times, the first carried one sorting last, and a
\* search and a tag filter that hide a note
C16_Witness ==
    /\ Len(FlatTags(notes)) = 3
    /\ FlatTags(notes)[1] = <<"c", "a">>
    /\ Len(allTags(notes)) = 2
    /\ selectedTag = Some(<<"c", "a">>)
    /\ searchQuery # EmptyStr
    /\ Len(visible) < Len(notes)

----------------------------------------------------------------------------
\* the steps of a start between the mount and the last persist effect
Starting == pc \in {"mount", "loaded", "flushed", "rendered"}

(* C17: at every step of a start over a stored, non-empty collection (the
   one the session before the reload had persisted), the stored text still
   holds that collection *)
C17_StartupKeepsStorage ==
    (Starting /\ prior # Null /\ prior[1] # <<>>) => StoredNotes = prior[1]

----------------------------------------------------------------------------
(* C18: in every Browsing state in which a tag is selected, a control that
   unsets the selected tag is offered: the All button, or the button of
   the selected tag *)
C18_FilterCanBeCleared ==
    (Browsing /\ selectedTag # Null) =>
        (ENABLED SelectAll \/ ENABLED ToggleTag(selectedTag[1]))

====
